---- MODULE Spec2Model ----
(***************************************************************************)
(* State-machine model of the GPT-5 multimodal chat backend (src/main.py): *)
(* the four POST handlers text_chat, image_upload_chat, image_base64_chat  *)
(* and multimodal_chat, the helpers they call, and the upstream completion *)
(* API they invoke.                                                        *)
(*                                                                         *)
(* Encoding of Python values:                                              *)
(*   - a str that the code only passes around is a TLA+ string; the value  *)
(*     None of an Optional[str] is the string None below;                  *)
(*   - a str that the code inspects (startswith, json.loads, base64) is a  *)
(*     sequence of characters or lexemes, wrapped as PyStr(..) where the   *)
(*     slot may also hold None (PyNone);                                   *)
(*   - a dict is a record, a missing key is a missing field;               *)
(*   - a list is a sequence, wrapped as PyList(..) where the slot may hold *)
(*     a value that is no list;                                            *)
(*   - a message "content" is StrContent(s) for a plain string and         *)
(*     PartsContent(<<..>>) for a list of typed parts.                     *)
(***************************************************************************)
EXTENDS Integers, Sequences, FiniteSets, TLC

VARIABLES
    pc,             \* per request slot: "idle", "pending", "awaiting", "responded"
    req,            \* per slot: the parsed request the handler is called with
    messages,       \* per slot: the handler's local list `messages`
    analysis_type,  \* per slot: the handler's local `analysis_type`
    has_image_part, \* per slot: whether current_message got an image part
    sent,           \* per slot: the `messages` argument the upstream call received
    calls,          \* per slot: number of upstream invocations made for the request
    outcome,        \* per slot: what the upstream call returned or raised
    resp,           \* per slot: the HTTP response of the request
    running         \* the slot whose handler occupies the event loop, 0 if none

vars == <<pc, req, messages, analysis_type, has_image_part, sent, calls, outcome, resp,
          running>>

----------------------------------------------------------------------------
(* Bounds of the model *)

\* number of request slots (requests that can be in flight at once)
NumReqs == 2
\* longest conversation_history a /chat/text body carries
MaxHistory == 2

Reqs == 1..NumReqs

----------------------------------------------------------------------------
(* Python values *)

None == "<None>"
PyNone == [kind |-> "NoneType"]
PyStr(chars) == [kind |-> "str", chars |-> chars]
PyList(items) == [kind |-> "list", items |-> items]
PyInt(n) == [kind |-> "int", value |-> n]

StrContent(s) == [str |-> s]
PartsContent(parts) == [parts |-> parts]

\* truthiness of an Optional[str]: None and "" are falsy
Truthy(s) == s # None /\ s # ""

\* truthiness of an Optional[list]
TruthyList(v) == v.kind = "list" /\ Len(v.items) > 0

\* s.startswith(prefix) on character sequences
StartsWith(s, prefix) ==
    /\ Len(s) >= Len(prefix)
    /\ SubSeq(s, 1, Len(prefix)) = prefix

IMAGE_PREFIX == <<"i", "m", "a", "g", "e", "/">>

DEFAULT_PROMPT == "Analyze this image"

----------------------------------------------------------------------------
(* base64.b64encode(image_data).decode('utf-8') *)

B64Alphabet ==
    << "A","B","C","D","E","F","G","H","I","J","K","L","M","N","O","P",
       "Q","R","S","T","U","V","W","X","Y","Z","a","b","c","d","e","f",
       "g","h","i","j","k","l","m","n","o","p","q","r","s","t","u","v",
       "w","x","y","z","0","1","2","3","4","5","6","7","8","9","+","/" >>

B64Char(n) == B64Alphabet[n + 1]

RECURSIVE b64encode(_)
b64encode(data) ==
    IF Len(data) = 0 THEN <<>>
    ELSE IF Len(data) = 1 THEN
        << B64Char(data[1] \div 4), B64Char((data[1] % 4) * 16), "=", "=" >>
    ELSE IF Len(data) = 2 THEN
        << B64Char(data[1] \div 4),
           B64Char((data[1] % 4) * 16 + (data[2] \div 16)),
           B64Char((data[2] % 16) * 4), "=" >>
    ELSE
        << B64Char(data[1] \div 4),
           B64Char((data[1] % 4) * 16 + (data[2] \div 16)),
           B64Char((data[2] % 16) * 4 + (data[3] \div 64)),
           B64Char(data[3] % 64) >>
        \o b64encode(SubSeq(data, 4, Len(data)))

\* f"data:image/jpeg;base64,{base64_image}"
DataUrl(b64) == <<"data:image/jpeg;base64,">> \o b64

TextPart(text) == [type |-> "text", text |-> text]
ImagePart(b64) == [type |-> "image_url", image_url |-> [url |-> DataUrl(b64)]]

----------------------------------------------------------------------------
(* get_preset_prompt *)

presets ==
    [ analyze |-> "Analyze this image in detail. Describe what you see, identify key elements, colors, composition, and any notable features.",
      summarize |-> "Provide a concise summary of what's shown in this image in 2-3 sentences.",
      describe |-> "Describe this image as if you're explaining it to someone who cannot see it. Be detailed and specific.",
      extract_text |-> "Extract and transcribe any text visible in this image. If no text is present, say 'No text detected'.",
      identify_objects |-> "Identify and list all the objects, people, or items you can see in this image.",
      explain_context |-> "Explain the context and setting of this image. What's happening? Where might this be taken?" ]

\* get_preset_prompt without the table lookup
get_preset_prompt_no_table(action) == DEFAULT_PROMPT

get_preset_prompt(action) ==
    IF action \in DOMAIN presets THEN presets[action] ELSE DEFAULT_PROMPT

----------------------------------------------------------------------------
(* json.loads on a document given as its sequence of lexemes *)

JUserTurn == "{\"role\": \"user\", \"content\": \"earlier question\"}"
JAssistantTurn == "{\"role\": \"assistant\", \"content\": \"earlier answer\"}"

EarlierUser == [role |-> "user", content |-> StrContent("earlier question")]
EarlierAssistant == [role |-> "assistant", content |-> StrContent("earlier answer")]

\* the value of each lexeme that is a complete JSON value by itself
ScalarValue ==
    (JUserTurn :> EarlierUser) @@ (JAssistantTurn :> EarlierAssistant)
    @@ ("{}" :> [kind |-> "dict"])
    @@ ("0" :> PyInt(0)) @@ ("null" :> PyNone)
    @@ ("\"text\"" :> PyStr(<<"t", "e", "x", "t">>))

ParseFail == [ok |-> FALSE, val |-> PyNone, next |-> 0]

RECURSIVE ParseValue(_, _), ParseElements(_, _, _)

\* parse one JSON value starting at lexeme i: [ok, val, next]
ParseValue(toks, i) ==
    IF i > Len(toks) THEN ParseFail
    ELSE IF toks[i] \in DOMAIN ScalarValue
        THEN [ok |-> TRUE, val |-> ScalarValue[toks[i]], next |-> i + 1]
    ELSE IF toks[i] = "["
        THEN IF i + 1 <= Len(toks) /\ toks[i + 1] = "]"
             THEN [ok |-> TRUE, val |-> PyList(<<>>), next |-> i + 2]
             ELSE ParseElements(toks, i + 1, <<>>)
    ELSE ParseFail

\* parse the elements of an array after its "[" or after a ","
ParseElements(toks, i, acc) ==
    LET v == ParseValue(toks, i) IN
    IF ~v.ok \/ v.next > Len(toks) THEN ParseFail
    ELSE IF toks[v.next] = "]"
        THEN [ok |-> TRUE, val |-> PyList(Append(acc, v.val)), next |-> v.next + 1]
    ELSE IF toks[v.next] = ","
        THEN ParseElements(toks, v.next + 1, Append(acc, v.val))
    ELSE ParseFail

\* json.loads(doc): ok = FALSE stands for json.JSONDecodeError
json_loads(toks) ==
    LET v == ParseValue(toks, 1) IN
    IF v.ok /\ v.next = Len(toks) + 1
        THEN [ok |-> TRUE, val |-> v.val]
        ELSE [ok |-> FALSE, val |-> PyNone]

----------------------------------------------------------------------------
(* Exceptions and error responses *)

\* str(e) is a sequence of text pieces
HTTPException(status_code, detail) ==
    [type |-> "HTTPException", status_code |-> status_code, detail |-> detail]

\* str() of an HTTPException is "<status_code>: <detail>"
HTTPExceptionStr(e) == <<ToString(e.status_code), ": ">> \o e.detail

OtherException(type, text) == [type |-> type, text |-> text]

ExcStr(e) == IF e.type = "HTTPException" THEN HTTPExceptionStr(e) ELSE e.text

NoResponse == [status |-> 0]

ErrorResponse(e) == [status |-> e.status_code, detail |-> e.detail]

OkResponse(body) == [status |-> 200, body |-> body]

----------------------------------------------------------------------------
(* Request models (pydantic defaults applied to the JSON body) *)

\* TextChatRequest: conversation_history defaults to []
TextChatRequest(body) ==
    [ message |-> body.message,
      conversation_history |->
          IF "conversation_history" \in DOMAIN body
              THEN body.conversation_history ELSE PyList(<<>>) ]

\* ImageAnalysisRequest: prompt defaults to "Analyze this image", preset_action to None
ImageAnalysisRequest(body) ==
    [ image_base64 |-> body.image_base64,
      prompt |-> IF "prompt" \in DOMAIN body THEN body.prompt ELSE "Analyze this image",
      preset_action |->
          IF "preset_action" \in DOMAIN body THEN body.preset_action ELSE None ]

\* Optional[str] = Form(None): an empty form field is taken as not sent
Form(value) == IF value = "" THEN None ELSE value

\* the same for a form field modelled as a sequence of lexemes
FormDoc(value) ==
    IF value # PyNone /\ Len(value.chars) = 0 THEN PyNone ELSE value

----------------------------------------------------------------------------
(* Handler bodies up to the upstream call.  The result is either          *)
(* Raised(e), the exception the try block raised, or Prepared(..), the    *)
(* locals of the handler at the upstream call.                            *)

Raised(e) == [raised |-> TRUE, exc |-> e]

Prepared(msgs, atype, with_image) ==
    [ raised |-> FALSE, messages |-> msgs, analysis_type |-> atype,
      has_image_part |-> with_image ]

\* encode_image_to_base64: a failing read becomes HTTPException(400)
encode_image_to_base64(image_file) ==
    IF image_file.readable
        THEN [ok |-> TRUE, value |-> b64encode(image_file.data)]
        ELSE [ok |-> FALSE,
              exc |-> HTTPException(400,
                        <<"Error processing image: ", "I/O operation on closed file.">>)]

\* image.content_type.startswith('image/'): [raised, exc] or [raised, value]
content_type_is_image(image) ==
    IF image.content_type = PyNone
        THEN Raised(OtherException("AttributeError",
                        <<"'NoneType' object has no attribute 'startswith'">>))
        ELSE [raised |-> FALSE,
              value |-> StartsWith(image.content_type.chars, IMAGE_PREFIX)]

\* the messages list of the two image endpoints
image_messages(final_prompt, base64_image) ==
    << [ role |-> "user",
         content |-> PartsContent(<< TextPart(final_prompt), ImagePart(base64_image) >>) ] >>

\* text_chat that starts every conversation afresh
text_chat_messages_drop_history(request) ==
    << [role |-> "user", content |-> StrContent(request.message)] >>

(* text_chat, lines 110-111 *)
text_chat_messages(request) ==
    Append(IF TruthyList(request.conversation_history)
               THEN request.conversation_history.items ELSE <<>>,
           [role |-> "user", content |-> StrContent(request.message)])

\* the selection of image_upload_chat without its `elif prompt` branch
upload_select_prompt_ignored(prompt, preset_action) ==
    IF Truthy(preset_action)
        THEN [final_prompt |-> get_preset_prompt(preset_action),
              analysis_type |-> preset_action]
        ELSE [final_prompt |-> "Analyze this image", analysis_type |-> "default"]

(* image_upload_chat, lines 150-158 *)
upload_select(prompt, preset_action) ==
    IF Truthy(preset_action)
        THEN [final_prompt |-> get_preset_prompt(preset_action),
              analysis_type |-> preset_action]
    ELSE IF Truthy(prompt)
        THEN [final_prompt |-> prompt, analysis_type |-> "custom"]
    ELSE [final_prompt |-> "Analyze this image", analysis_type |-> "default"]

(* image_upload_chat, lines 141-174 *)
image_upload_chat_try(image, prompt, preset_action) ==
    LET is_image == content_type_is_image(image)
        encoded == encode_image_to_base64(image)
        sel == upload_select(prompt, preset_action)
    IN  IF is_image.raised THEN is_image
        ELSE IF ~is_image.value
            THEN Raised(HTTPException(400, <<"File must be an image">>))
        ELSE IF ~encoded.ok THEN Raised(encoded.exc)
        ELSE Prepared(image_messages(sel.final_prompt, encoded.value),
                      sel.analysis_type, TRUE)

(* image_base64_chat, lines 199-204 *)
base64_select(request) ==
    IF Truthy(request.preset_action)
        THEN [final_prompt |-> get_preset_prompt(request.preset_action),
              analysis_type |-> request.preset_action]
        ELSE [final_prompt |->
                  IF Truthy(request.prompt) THEN request.prompt ELSE "Analyze this image",
              analysis_type |->
                  IF Truthy(request.prompt) THEN "custom" ELSE "default"]

(* image_base64_chat, lines 197-220 *)
image_base64_chat_try(request) ==
    LET sel == base64_select(request)
    IN  Prepared(image_messages(sel.final_prompt, request.image_base64),
                 sel.analysis_type, TRUE)

(* multimodal_chat, lines 250-256: the value bound to `messages` *)
IsList(v) == "kind" \in DOMAIN v /\ v.kind = "list"

TypeName(v) == IF "kind" \in DOMAIN v THEN v.kind ELSE "dict"

\* parse_history that also takes a parsed value that is no list for []
parse_history_lenient(conversation_history) ==
    IF conversation_history = PyNone \/ Len(conversation_history.chars) = 0
        THEN PyList(<<>>)
        ELSE LET parsed == json_loads(conversation_history.chars)
             IN  IF parsed.ok /\ IsList(parsed.val) THEN parsed.val ELSE PyList(<<>>)

\* parse_history whose decode error leaves `messages` unusable
parse_history_uncaught(conversation_history) ==
    IF conversation_history = PyNone \/ Len(conversation_history.chars) = 0
        THEN PyList(<<>>)
        ELSE LET parsed == json_loads(conversation_history.chars)
             IN  IF parsed.ok THEN parsed.val ELSE PyInt(0)

\* lines 250-256
parse_history(conversation_history) ==
    IF conversation_history = PyNone \/ Len(conversation_history.chars) = 0
        THEN PyList(<<>>)
        ELSE LET parsed == json_loads(conversation_history.chars)
             IN  IF parsed.ok THEN parsed.val ELSE PyList(<<>>)

(* multimodal_chat, lines 247-277 *)
multimodal_chat_try(message, image, conversation_history) ==
    LET history == parse_history(conversation_history)
        is_image == IF image = PyNone
                        THEN [raised |-> FALSE, value |-> FALSE]
                        ELSE content_type_is_image(image)
        encoded == encode_image_to_base64(image)
        text_only == << TextPart(message) >>
    IN  IF is_image.raised THEN is_image
        ELSE IF is_image.value /\ ~encoded.ok THEN Raised(encoded.exc)
        ELSE IF ~IsList(history)
            THEN Raised(OtherException("AttributeError",
                    <<"'", TypeName(history), "' object has no attribute 'append'">>))
        ELSE Prepared(
                Append(history.items,
                       [ role |-> "user",
                         content |-> PartsContent(
                             IF is_image.value
                                 THEN Append(text_only, ImagePart(encoded.value))
                                 ELSE text_only) ]),
                None, is_image.value)

----------------------------------------------------------------------------
(* The except clauses and the response envelopes *)

\* the except clause without str(e)
http_500_without_text(prefix, e) == HTTPException(500, <<prefix>>)

\* except Exception as e: raise HTTPException(status_code=500, detail=f"{prefix}{str(e)}")
http_500(prefix, e) == HTTPException(500, <<prefix>> \o ExcStr(e))

ErrorPrefix(endpoint) ==
    CASE endpoint = "/chat/text" -> "Error processing chat: "
      [] endpoint = "/chat/image-upload" -> "Error processing image: "
      [] endpoint = "/chat/image-base64" -> "Error processing image: "
      [] endpoint = "/chat/multimodal" -> "Error processing multimodal chat: "

\* a response model with `response: str` rejects None
ValidationError(model) ==
    OtherException("ValidationError",
        <<"1 validation error for ", model, " response: Input should be a valid string">>)

AssistantTurn(assistant_response) ==
    [role |-> "assistant", content |-> StrContent(assistant_response)]

\* multimodal_chat, line 295
has_image(image, included) == image # PyNone

----------------------------------------------------------------------------
(* Inputs *)

CT_PNG == PyStr(<<"i", "m", "a", "g", "e", "/", "p", "n", "g">>)
CT_TEXT == PyStr(<<"t", "e", "x", "t", "/", "p", "l", "a", "i", "n">>)
CT_BARE == PyStr(<<"i", "m", "a", "g", "e">>)

UploadFile(content_type, data, readable) ==
    [content_type |-> content_type, data |-> data, readable |-> readable]

ImageData == { <<77, 97, 110>>, <<137, 80>> }

UploadFiles ==
    { UploadFile(CT_PNG, d, TRUE) : d \in ImageData }
    \cup { UploadFile(CT_PNG, <<77, 97, 110>>, FALSE),
           UploadFile(CT_TEXT, <<77, 97, 110>>, TRUE),
           UploadFile(CT_BARE, <<77, 97, 110>>, TRUE),
           UploadFile(PyNone, <<77, 97, 110>>, TRUE) }

Prompts == { None, "", "What is in this picture?" }

PresetActions == { None, "", "enhance" } \cup DOMAIN presets

Messages == { "hi", "" }

\* `message: str = Form(...)` is required: an empty one never reaches the handler
FormMessages == { "hi", "and this one?" }

TurnPool == { EarlierUser, EarlierAssistant }

Histories == UNION { [1..n -> TurnPool] : n \in 0..MaxHistory }

\* an optional key of a JSON body: absent, or present with one of the values
OptionalKey(key, values) == { <<>> } \cup { key :> v : v \in values }

TextBodies ==
    { [message |-> m] @@ h :
        m \in Messages,
        h \in OptionalKey("conversation_history",
                          {PyNone} \cup { PyList(t) : t \in Histories }) }

Base64Bodies ==
    { [image_base64 |-> b64encode(d)] @@ p @@ a :
        d \in ImageData,
        p \in OptionalKey("prompt", Prompts),
        a \in OptionalKey("preset_action", PresetActions) }

UploadForms ==
    [ image : UploadFiles, prompt : Prompts, preset_action : PresetActions ]

HistoryDocs ==
    { <<>>,
      <<"[", "]">>,
      <<"[", JUserTurn, "]">>,
      <<"[", JUserTurn, ",", JAssistantTurn, "]">>,
      <<"[", "[", "]", ",", "0", "]">>,
      <<"[", JUserTurn>>,
      <<"[", JUserTurn, ",", "]">>,
      <<JUserTurn, JAssistantTurn>>,
      <<"not json">>,
      <<JUserTurn>>,
      <<"{}">>,
      <<"0">>,
      <<"null">>,
      <<"\"text\"">> }

MultimodalForms ==
    [ message : FormMessages,
      image : {PyNone} \cup UploadFiles,
      conversation_history : {PyNone} \cup { PyStr(d) : d \in HistoryDocs } ]

Request(endpoint, input) == [endpoint |-> endpoint, input |-> input]

AllRequests ==
    { Request("/chat/text", b) : b \in TextBodies }
    \cup { Request("/chat/image-upload", f) : f \in UploadForms }
    \cup { Request("/chat/image-base64", b) : b \in Base64Bodies }
    \cup { Request("/chat/multimodal", f) : f \in MultimodalForms }

\* the replies of the upstream completion API: a text, no text, or a failure
UpstreamOutcomes ==
    { [ok |-> TRUE, content |-> "hello"],
      [ok |-> TRUE, content |-> None],
      [ok |-> FALSE,
       exc |-> OtherException("APIConnectionError", <<"Connection error.">>)] }

NoOutcome == [received |-> FALSE]

NoRequest == [endpoint |-> "none"]

----------------------------------------------------------------------------
(* Steps shared by the handlers *)

\* the handler of slot r reaches client.chat.completions.create(messages=...)
CallUpstream(r, p) ==
    /\ messages' = [messages EXCEPT ![r] = p.messages]
    /\ analysis_type' = [analysis_type EXCEPT ![r] = p.analysis_type]
    /\ has_image_part' = [has_image_part EXCEPT ![r] = p.has_image_part]
    /\ sent' = [sent EXCEPT ![r] = p.messages]
    /\ calls' = [calls EXCEPT ![r] = @ + 1]
    /\ pc' = [pc EXCEPT ![r] = "awaiting"]
    /\ running' = r
    /\ UNCHANGED <<req, outcome, resp>>

\* the handler of slot r ends with `response`
Respond(r, response) ==
    /\ resp' = [resp EXCEPT ![r] = response]
    /\ pc' = [pc EXCEPT ![r] = "responded"]
    /\ running' = 0

\* the try block raised e before any upstream call
Fail(r, e) ==
    /\ Respond(r, ErrorResponse(http_500(ErrorPrefix(req[r].endpoint), e)))
    /\ UNCHANGED <<req, messages, analysis_type, has_image_part, sent, calls, outcome>>

Begin(r, p) == IF p.raised THEN Fail(r, p.exc) ELSE CallUpstream(r, p)

CanStart(r, endpoint) ==
    /\ pc[r] = "pending"
    /\ running = 0
    /\ req[r].endpoint = endpoint

CanResume(r, endpoint) ==
    /\ pc[r] = "awaiting"
    /\ running = r
    /\ req[r].endpoint = endpoint

----------------------------------------------------------------------------------------------------------------------------------------
(* Handler bodies after the upstream call: the updated `messages` and the *)
(* response the handler ends with                                         *)

Reshaped(msgs, response) == [messages |-> msgs, response |-> response]

(* text_chat, lines 121-132 *)
text_chat_reshape(msgs, out) ==
    IF ~out.ok
        THEN Reshaped(msgs, ErrorResponse(http_500("Error processing chat: ", out.exc)))
        ELSE LET updated == Append(msgs, AssistantTurn(out.content))
             IN  IF out.content = None
                     THEN Reshaped(updated, ErrorResponse(
                              http_500("Error processing chat: ",
                                       ValidationError("TextChatResponse"))))
                     ELSE Reshaped(updated, OkResponse(
                              [ response |-> out.content,
                                conversation_history |-> updated ]))

(* image_upload_chat, lines 184-192, and image_base64_chat, lines 230-238 *)
image_chat_reshape(msgs, atype, out) ==
    IF ~out.ok
        THEN Reshaped(msgs, ErrorResponse(http_500("Error processing image: ", out.exc)))
    ELSE IF out.content = None
        THEN Reshaped(msgs, ErrorResponse(
                 http_500("Error processing image: ",
                          ValidationError("ImageAnalysisResponse"))))
    ELSE Reshaped(msgs, OkResponse(
             [response |-> out.content, analysis_type |-> atype]))

(* multimodal_chat, lines 287-299 *)
multimodal_chat_reshape(msgs, image, included, out) ==
    IF ~out.ok
        THEN Reshaped(msgs, ErrorResponse(
                 http_500("Error processing multimodal chat: ", out.exc)))
        ELSE LET updated == Append(msgs, AssistantTurn(out.content))
             IN  Reshaped(updated, OkResponse(
                     [ response |-> out.content,
                       conversation_history |-> updated,
                       has_image |-> has_image(image, included) ]))

\* the upstream call of slot r ends with `out` and the handler runs to its end
Resume(r, out, fin) ==
    /\ outcome' = [outcome EXCEPT ![r] = out]
    /\ messages' = [messages EXCEPT ![r] = fin.messages]
    /\ Respond(r, fin.response)
    /\ UNCHANGED <<req, analysis_type, has_image_part, sent, calls>>

----------------------------------------------------------------------------
(* POST /chat/text *)

\* text_chat with `messages` held at module level instead of in the handler
text_chat_module_level_messages(r) ==
    /\ CanStart(r, "/chat/text")
    /\ LET msgs == text_chat_messages(TextChatRequest(req[r].input))
       IN  /\ messages' = [q \in Reqs |-> msgs]
           /\ sent' = [sent EXCEPT ![r] = msgs]
    /\ calls' = [calls EXCEPT ![r] = @ + 1]
    /\ pc' = [pc EXCEPT ![r] = "awaiting"]
    /\ running' = r
    /\ UNCHANGED <<req, analysis_type, has_image_part, outcome, resp>>

text_chat(r) ==
    /\ CanStart(r, "/chat/text")
    /\ Begin(r, Prepared(text_chat_messages(TextChatRequest(req[r].input)), None, FALSE))

text_chat_return(r) ==
    /\ CanResume(r, "/chat/text")
    /\ \E out \in UpstreamOutcomes :
           Resume(r, out, text_chat_reshape(messages[r], out))

----------------------------------------------------------------------------
(* POST /chat/image-upload *)

image_upload_chat(r) ==
    /\ CanStart(r, "/chat/image-upload")
    /\ Begin(r, image_upload_chat_try(req[r].input.image, Form(req[r].input.prompt),
                                      Form(req[r].input.preset_action)))

image_upload_chat_return(r) ==
    /\ CanResume(r, "/chat/image-upload")
    /\ \E out \in UpstreamOutcomes :
           Resume(r, out, image_chat_reshape(messages[r], analysis_type[r], out))

----------------------------------------------------------------------------
(* POST /chat/image-base64 *)

image_base64_chat(r) ==
    /\ CanStart(r, "/chat/image-base64")
    /\ Begin(r, image_base64_chat_try(ImageAnalysisRequest(req[r].input)))

image_base64_chat_return(r) ==
    /\ CanResume(r, "/chat/image-base64")
    /\ \E out \in UpstreamOutcomes :
           Resume(r, out, image_chat_reshape(messages[r], analysis_type[r], out))

----------------------------------------------------------------------------
(* POST /chat/multimodal *)

multimodal_chat(r) ==
    /\ CanStart(r, "/chat/multimodal")
    /\ Begin(r, multimodal_chat_try(req[r].input.message, req[r].input.image,
                                    FormDoc(req[r].input.conversation_history)))

multimodal_chat_return(r) ==
    /\ CanResume(r, "/chat/multimodal")
    /\ \E out \in UpstreamOutcomes :
           Resume(r, out, multimodal_chat_reshape(messages[r], req[r].input.image,
                                                  has_image_part[r], out))

----------------
(* The clients and the server *)

\* a client's request reaches the server
Arrive(r, requests) ==
    /\ pc[r] = "idle"
    /\ \E q \in requests : req' = [req EXCEPT ![r] = q]
    /\ pc' = [pc EXCEPT ![r] = "pending"]
    /\ UNCHANGED <<messages, analysis_type, has_image_part, sent, calls, outcome, resp,
                   running>>

\* the response is written to the client and the handler's frame is dropped
Deliver(r) ==
    /\ pc[r] = "responded"
    /\ running = 0
    /\ pc' = [pc EXCEPT ![r] = "idle"]
    /\ req' = [req EXCEPT ![r] = NoRequest]
    /\ messages' = [messages EXCEPT ![r] = <<>>]
    /\ analysis_type' = [analysis_type EXCEPT ![r] = None]
    /\ has_image_part' = [has_image_part EXCEPT ![r] = FALSE]
    /\ sent' = [sent EXCEPT ![r] = <<>>]
    /\ calls' = [calls EXCEPT ![r] = 0]
    /\ outcome' = [outcome EXCEPT ![r] = NoOutcome]
    /\ resp' = [resp EXCEPT ![r] = NoResponse]
    /\ UNCHANGED running

Init ==
    /\ pc = [r \in Reqs |-> "idle"]
    /\ req = [r \in Reqs |-> NoRequest]
    /\ messages = [r \in Reqs |-> <<>>]
    /\ analysis_type = [r \in Reqs |-> None]
    /\ has_image_part = [r \in Reqs |-> FALSE]
    /\ sent = [r \in Reqs |-> <<>>]
    /\ calls = [r \in Reqs |-> 0]
    /\ outcome = [r \in Reqs |-> NoOutcome]
    /\ resp = [r \in Reqs |-> NoResponse]
    /\ running = 0

AllIdle == \A q \in Reqs : pc[q] = "idle"

\* one client that waits for each response before it sends the next request
ArriveAlone(r) == AllIdle /\ Arrive(r, AllRequests)

Next ==
    \E r \in Reqs :
        \/ ArriveAlone(r)
        \/ text_chat(r)
        \/ text_chat_return(r)
        \/ image_upload_chat(r)
        \/ image_upload_chat_return(r)
        \/ image_base64_chat(r)
        \/ image_base64_chat_return(r)
        \/ multimodal_chat(r)
        \/ multimodal_chat_return(r)
        \/ Deliver(r)

Spec == Init /\ [][Next]_vars

----------------------------------------------------------------------------
(* Several clients at once.  The handlers are coroutines that never await *)
(* and the upstream client is the blocking one, so a handler keeps the    *)
(* event loop from its first line to its response (CanStart, running);    *)
(* other requests are in flight before and after their handler runs.      *)

ConcRequests ==
    { Request("/chat/text", [message |-> "hi"]),
      Request("/chat/text",
              [ message |-> "",
                conversation_history |-> PyList(<<EarlierUser, EarlierAssistant>>) ]),
      Request("/chat/image-upload",
              [ image |-> UploadFile(CT_PNG, <<137, 80>>, TRUE),
                prompt |-> "What is in this picture?", preset_action |-> None ]),
      Request("/chat/image-upload",
              [ image |-> UploadFile(CT_TEXT, <<77, 97, 110>>, TRUE),
                prompt |-> None, preset_action |-> "summarize" ]),
      Request("/chat/image-base64",
              [ image_base64 |-> b64encode(<<77, 97, 110>>),
                preset_action |-> "analyze" ]),
      Request("/chat/multimodal",
              [ message |-> "hi",
                image |-> UploadFile(CT_PNG, <<77, 97, 110>>, TRUE),
                conversation_history |-> PyStr(<<"[", JUserTurn, ",", JAssistantTurn, "]">>) ]),
      Request("/chat/multimodal",
              [ message |-> "hi", image |-> PyNone,
                conversation_history |-> PyStr(<<"not json">>) ]) }

ArriveAny(r) == Arrive(r, ConcRequests)

NextConc ==
    \E r \in Reqs :
        \/ ArriveAny(r)
        \/ text_chat(r)
        \/ text_chat_return(r)
        \/ image_upload_chat(r)
        \/ image_upload_chat_return(r)
        \/ image_base64_chat(r)
        \/ image_base64_chat_return(r)
        \/ multimodal_chat(r)
        \/ multimodal_chat_return(r)
        \/ Deliver(r)

SpecConc == Init /\ [][NextConc]_vars

----------------------------------------------------------------------------
(* Vocabulary of the properties *)

Endpoint(r) == req[r].endpoint

IsImageRequest(r) == Endpoint(r) \in {"/chat/image-upload", "/chat/image-base64"}

\* the value the request carries under `key`; None when it carries none
Supplied(r, key) ==
    IF key \in DOMAIN req[r].input THEN req[r].input[key] ELSE None

Called(r) == calls[r] > 0

Responded(r) == pc[r] = "responded"

Succeeded(r) == Responded(r) /\ resp[r].status = 200

\* the user turn the request added to what it sent upstream
SentUserTurn(r) == sent[r][Len(sent[r])]

SentTextPart(r) == SentUserTurn(r).content.parts[1].text

SentHasImagePart(r) ==
    \E i \in 1..Len(SentUserTurn(r).content.parts) :
        SentUserTurn(r).content.parts[i].type = "image_url"

DeclaredNonImage(file) ==
    /\ file.content_type # PyNone
    /\ ~StartsWith(file.content_type.chars, IMAGE_PREFIX)

\* the uploaded file, if any, gives the handler no reason to fail
NoImageFault(file) ==
    \/ file = PyNone
    \/ /\ file.content_type # PyNone
       /\ StartsWith(file.content_type.chars, IMAGE_PREFIX) => file.readable

----------------------------------------------------------------------------
(* Properties *)

\* C1: on POST /chat/image-upload a file whose declared content type does not
\* start with "image/" ends the request with status 400, and the upstream
\* completion API is never invoked for it.
C1_NonImageUploadIs400 ==
    \A r \in Reqs :
        (/\ Endpoint(r) = "/chat/image-upload"
         /\ Responded(r)
         /\ DeclaredNonImage(req[r].input.image))
        => (resp[r].status = 400 /\ calls[r] = 0)

\* C2: on both image endpoints a request that supplies neither a preset key
\* nor a prompt sends the text part "Analyze this image" upstream and returns
\* analysis_type "default".
C2_DefaultWhenNothingSupplied ==
    \A r \in Reqs :
        (/\ IsImageRequest(r)
         /\ Supplied(r, "preset_action") = None
         /\ Supplied(r, "prompt") = None)
        => /\ Called(r) => SentTextPart(r) = "Analyze this image"
           /\ Succeeded(r) => resp[r].body.analysis_type = "default"

\* what C3 says a request with preset key `key` sends and returns
PresetOutcome(r, key) ==
    /\ Called(r) =>
           SentTextPart(r) =
               IF key \in DOMAIN presets THEN presets[key] ELSE "Analyze this image"
    /\ Succeeded(r) => resp[r].body.analysis_type = key

\* C3 as stated: on both image endpoints, whenever a preset key is supplied,
\* with or without a prompt, the returned analysis_type is the literal key and
\* the text part sent upstream is the table's instruction for the key, or
\* "Analyze this image" for a key that is not in the table; the prompt is not
\* used.
C3_AnySuppliedPresetWins ==
    \A r \in Reqs :
        (IsImageRequest(r) /\ Supplied(r, "preset_action") # None)
        => PresetOutcome(r, Supplied(r, "preset_action"))

\* C3 as amended: the same, for every supplied preset key that is not the
\* empty string.
C3_NonEmptyPresetWins ==
    \A r \in Reqs :
        (/\ IsImageRequest(r)
         /\ Supplied(r, "preset_action") # None
         /\ Supplied(r, "preset_action") # "")
        => PresetOutcome(r, Supplied(r, "preset_action"))

\* a request with an unknown preset key and a prompt has been answered
C3_Witness ==
    \E r \in Reqs :
        /\ IsImageRequest(r)
        /\ Supplied(r, "preset_action") = "enhance"
        /\ Supplied(r, "prompt") = "What is in this picture?"
        /\ Succeeded(r)

\* C4: the has_image that POST /chat/multimodal returns is true exactly when
\* the user turn appended for the request contains an image part.
C4_HasImageIffImagePart ==
    \A r \in Reqs :
        (Endpoint(r) = "/chat/multimodal" /\ Succeeded(r))
        => (resp[r].body.has_image <=> SentHasImagePart(r))

\* the history a /chat/text body carries, as a sequence of turns
BodyHistory(body) ==
    IF "conversation_history" \in DOMAIN body /\ body.conversation_history # PyNone
        THEN body.conversation_history.items ELSE <<>>

\* C5: POST /chat/text is append-only: what is sent upstream is the history H
\* followed by the one turn {user, message}, and on success the returned
\* conversation_history is that list followed by the one turn
\* {assistant, reply}, reply being the returned response.
C5_TextChatAppendOnly ==
    \A r \in Reqs :
        Endpoint(r) = "/chat/text" =>
            LET H == BodyHistory(req[r].input)
                n == Len(H)
            IN  /\ Called(r) =>
                    /\ Len(sent[r]) = n + 1
                    /\ SubSeq(sent[r], 1, n) = H
                    /\ sent[r][n + 1] =
                           [role |-> "user", content |-> StrContent(req[r].input.message)]
                /\ Succeeded(r) =>
                    /\ Len(resp[r].body.conversation_history) = n + 2
                    /\ SubSeq(resp[r].body.conversation_history, 1, n + 1) = sent[r]
                    /\ resp[r].body.conversation_history[n + 2] =
                           [role |-> "assistant",
                            content |-> StrContent(resp[r].body.response)]

\* a /chat/text request with a history of two turns has succeeded
C5_Witness ==
    \E r \in Reqs :
        /\ Endpoint(r) = "/chat/text"
        /\ Len(BodyHistory(req[r].input)) = 2
        /\ Succeeded(r)

\* the request of slot r carries a history string that json.loads rejects
MalformedHistory(r) ==
    /\ Endpoint(r) = "/chat/multimodal"
    /\ req[r].input.conversation_history # PyNone
    /\ ~json_loads(req[r].input.conversation_history.chars).ok

\* C6: on POST /chat/multimodal a conversation_history that fails to parse
\* causes no error: the handler reaches its upstream call, what it sends holds
\* exactly one turn, the new user turn, and the returned conversation holds
\* that turn and the reply only.
C6_MalformedHistoryDiscarded ==
    \A r \in Reqs :
        (/\ MalformedHistory(r)
         /\ NoImageFault(req[r].input.image)
         /\ pc[r] \in {"awaiting", "responded"})
        => /\ calls[r] = 1
           /\ Len(sent[r]) = 1
           /\ sent[r][1].role = "user"
           /\ sent[r][1].content.parts[1] = TextPart(req[r].input.message)
           /\ (Responded(r) /\ outcome[r].ok) =>
                  /\ resp[r].status = 200
                  /\ Len(resp[r].body.conversation_history) = 2

\* a request with a malformed, non-empty history has succeeded
C6_Witness ==
    \E r \in Reqs :
        /\ MalformedHistory(r)
        /\ Len(req[r].input.conversation_history.chars) > 0
        /\ Succeeded(r)

\* C7: on both image endpoints, with no preset key and a non-empty prompt,
\* the text part sent upstream is the prompt and the returned analysis_type
\* is "custom".
C7_CustomPromptVerbatim ==
    \A r \in Reqs :
        (/\ IsImageRequest(r)
         /\ Supplied(r, "preset_action") \in {None, ""}
         /\ Supplied(r, "prompt") \notin {None, ""})
        => /\ Called(r) => SentTextPart(r) = Supplied(r, "prompt")
           /\ Succeeded(r) => resp[r].body.analysis_type = "custom"

\* requests with a prompt and no preset key have succeeded on each endpoint
C7_Witness ==
    \E r \in Reqs :
        /\ Endpoint(r) = "/chat/image-upload"
        /\ Supplied(r, "preset_action") = None
        /\ Supplied(r, "prompt") = "What is in this picture?"
        /\ Succeeded(r)

\* the keys of the success envelope of each endpoint
Envelope(endpoint) ==
    CASE endpoint = "/chat/text" -> {"response", "conversation_history"}
      [] endpoint = "/chat/image-upload" -> {"response", "analysis_type"}
      [] endpoint = "/chat/image-base64" -> {"response", "analysis_type"}
      [] endpoint = "/chat/multimodal" -> {"response", "conversation_history", "has_image"}

\* C8: every request invokes the upstream API at most once and ends either
\* with the full success envelope or with one error response; when the
\* upstream call fails the response is a 500 whose detail embeds the
\* exception text, and it carries no reply and no conversation.
C8_OneCallOneOutcome ==
    \A r \in Reqs :
        /\ calls[r] <= 1
        /\ pc[r] = "awaiting" => (calls[r] = 1 /\ resp[r] = NoResponse)
        /\ Responded(r) =>
            /\ \/ /\ resp[r].status = 200
                  /\ DOMAIN resp[r] = {"status", "body"}
                  /\ DOMAIN resp[r].body = Envelope(Endpoint(r))
                  /\ calls[r] = 1 /\ outcome[r].ok
               \/ /\ resp[r].status \in 400..599
                  /\ DOMAIN resp[r] = {"status", "detail"}
            /\ (calls[r] = 1 /\ ~outcome[r].ok) =>
                  /\ resp[r].status = 500
                  /\ DOMAIN resp[r] = {"status", "detail"}
                  /\ resp[r].detail =
                         <<ErrorPrefix(Endpoint(r))>> \o outcome[r].exc.text

\* a request whose upstream call failed has been answered
C8_Witness ==
    \E r \in Reqs : Responded(r) /\ calls[r] = 1 /\ ~outcome[r].ok

\* the request of slot r carries a history string that is valid JSON but no list
NonListHistory(r) ==
    /\ Endpoint(r) = "/chat/multimodal"
    /\ req[r].input.conversation_history # PyNone
    /\ Len(req[r].input.conversation_history.chars) > 0
    /\ json_loads(req[r].input.conversation_history.chars).ok
    /\ ~IsList(json_loads(req[r].input.conversation_history.chars).val)

\* C10: on POST /chat/multimodal a conversation_history that is valid JSON
\* but no list is not taken for an empty history: the append fails, the
\* request ends with a 500 and the upstream API is never invoked.
C10_NonListHistoryIs500 ==
    \A r \in Reqs :
        NonListHistory(r) =>
            /\ pc[r] # "awaiting"
            /\ calls[r] = 0
            /\ Responded(r) =>
                /\ resp[r].status = 500
                /\ NoImageFault(req[r].input.image) =>
                       resp[r].detail[Len(resp[r].detail)] =
                           "' object has no attribute 'append'"

\* a request whose history is the JSON value null has been answered
C10_Witness ==
    \E r \in Reqs :
        /\ NonListHistory(r)
        /\ req[r].input.conversation_history.chars = <<"null">>
        /\ req[r].input.image = PyNone
        /\ Responded(r)

\* everything the handler of slot q reads and writes
Frame(q) ==
    << req[q], messages[q], analysis_type[q], has_image_part[q], sent[q], calls[q],
       outcome[q], resp[q] >>

\* two requests with the same inputs send the same messages upstream and,
\* given the same upstream outcome, end with the same response
C9_Determined ==
    \A a, b \in Reqs :
        (Endpoint(a) = Endpoint(b) /\ req[a] = req[b]) =>
            /\ (Called(a) /\ Called(b)) => sent[a] = sent[b]
            /\ (Responded(a) /\ Responded(b) /\ outcome[a] = outcome[b])
                   => resp[a] = resp[b]

\* a step that is not a step of request q leaves all of q's frame alone
C9_NoInterference ==
    \A q \in Reqs : pc'[q] = pc[q] => Frame(q)' = Frame(q)

====
